---- MODULE Spec2Model ----
(***************************************************************************)
(* A model of package_version_checker.py: the constraint resolver          *)
(* (parse_version_constraint), the index lookup (get_pypi_info), the       *)
(* update classifier (compare_versions) and the concurrent analysis        *)
(* (analyze_packages_async).                                               *)
(*                                                                         *)
(* Python strings are sequences of one-character strings.  Python values   *)
(* are records tagged by their type; a call's outcome is either a returned *)
(* value or a raised exception.                                            *)
(***************************************************************************)
EXTENDS Integers, Sequences, FiniteSets, TLC

VARIABLES pc, manifest, tasks, inflight, results, idx, packages, returned,
          compared, arg1, arg2, packaging, out

vars == <<pc, manifest, tasks, inflight, results, idx, packages, returned,
          compared, arg1, arg2, packaging, out>>

(***************************************************************************)
(* Bounds of the model.                                                    *)
(***************************************************************************)
\* longest enumerated constraint string
MaxConstraintLen == 3
\* longest enumerated version string
MaxVerLen == 3
\* nesting depth of enumerated table-form constraints
MaxDepth == 2
\* number of dependency entries of a manifest (list lines plus mapping entries)
MaxDeps == 2

(***************************************************************************)
(* Characters.                                                             *)
(***************************************************************************)
Digits == {"0", "1", "2", "3", "4", "5", "6", "7", "8", "9"}

LowerSeq == <<"a", "b", "c", "d", "e", "f", "g", "h", "i", "j", "k", "l", "m",
              "n", "o", "p", "q", "r", "s", "t", "u", "v", "w", "x", "y", "z">>

UpperSeq == <<"A", "B", "C", "D", "E", "F", "G", "H", "I", "J", "K", "L", "M",
              "N", "O", "P", "Q", "R", "S", "T", "U", "V", "W", "X", "Y", "Z">>

Lowercase == {LowerSeq[i] : i \in 1..26}

Uppercase == {UpperSeq[i] : i \in 1..26}

\* The characters str.strip() removes (those for which str.isspace() holds)
\* that can be written in a module: space, tab, line feed, carriage return,
\* form feed, vertical tab (U+000B), the separators U+001C to U+001F, next
\* line (U+0085), the no-break space (U+00A0) and the ogham space mark
\* (U+1680).  The other Unicode spaces (U+2000 to U+200A, U+2028, U+2029,
\* U+202F, U+205F, U+3000) are stripped too but are not accepted in a string
\* of a module; no input here contains them.
VT == ""

FS == ""

GS == ""

RS == ""

US == ""

NEL == ""

NBSP == " "

OGHAM == " "

Whitespace ==
  {" ", "\t", "\n", "\r", "\f", VT, FS, GS, RS, US, NEL, NBSP, OGHAM}

\* the character class [\^~>=<] of the resolver's re.sub
OpChars == {"^", "~", ">", "=", "<"}

\* the character class [A-Za-z0-9_.\-] of the dependency-line regex
NameChars == Lowercase \cup Uppercase \cup Digits \cup {"_", ".", "-"}

(***************************************************************************)
(* Python values and call outcomes.                                        *)
(***************************************************************************)
None == [t |-> "none", s |-> <<>>, ver |-> <<>>, more |-> FALSE]

Str(s) == [t |-> "str", s |-> s, ver |-> <<>>, more |-> FALSE]

\* a value that is neither a string, a dict nor None, that is true in a
\* condition, and that is not an iterable of version characters (a non-zero
\* number, True, b"1", ["1.0"], (1,))
Other == [t |-> "other", s |-> <<>>, ver |-> <<>>, more |-> TRUE]

\* a value that is neither a string, a dict nor None, that is false in a
\* condition, and that is not an empty iterable other than bytes (0, 0.0,
\* False, b"")
Falsy == [t |-> "other", s |-> <<>>, ver |-> <<>>, more |-> FALSE]

\* a non-empty iterable, neither a string nor a dict nor bytes, whose items
\* are all one-character strings among ".0123456789": a list, tuple, set or
\* any other iterable object (["1", ".", "2"])
DigitIterable == [t |-> "digits", s |-> <<>>, ver |-> <<>>, more |-> TRUE]

\* an empty iterable, neither a string nor a dict nor bytes ([], (), set(),
\* frozenset(), range(0))
EmptyIterable == [t |-> "digits", s |-> <<>>, ver |-> <<>>, more |-> FALSE]

\* a dict: ver is <<>> when it has no "version" key and <<v>> when
\* d["version"] is v; more says whether it has other keys that are not a
\* single character among ".0123456789" (extras, markers); s holds its keys
\* that are such a character
Dict(ver, more) == [t |-> "dict", s |-> <<>>, ver |-> ver, more |-> more]

\* a dict all of whose keys are single characters among ".0123456789" ({"1": 2})
DigitKeyDict == [t |-> "dict", s |-> <<"1">>, ver |-> <<>>, more |-> FALSE]

Ret(v) == [exc |-> "", val |-> v]

Raise(e) == [exc |-> e, val |-> None]

\* Python truthiness: None, the empty string, the empty dict, the empty
\* iterables and the zero or empty values of the other types are false
Truthy(v) ==
  CASE v.t = "none" -> FALSE
    [] v.t = "str" -> v.s # <<>>
    [] v.t = "dict" -> v.ver # <<>> \/ v.more \/ v.s # <<>>
    [] OTHER -> v.more

(***************************************************************************)
(* String operations.                                                      *)
(***************************************************************************)
RECURSIVE Split(_, _)
\* s.split(c) for a one-character separator c: the list of pieces
Split(s, c) ==
  IF \A i \in 1..Len(s) : s[i] # c
  THEN <<s>>
  ELSE LET k == CHOOSE i \in 1..Len(s) :
                  s[i] = c /\ \A j \in 1..(i - 1) : s[j] # c
       IN  <<SubSeq(s, 1, k - 1)>> \o Split(SubSeq(s, k + 1, Len(s)), c)

RECURSIVE ReSubOps(_)
\* re.sub(r"[\^~>=<]", "", s): every match of the class is deleted
ReSubOps(s) ==
  IF s = <<>> THEN <<>>
  ELSE IF Head(s) \in OpChars THEN ReSubOps(Tail(s))
  ELSE <<Head(s)>> \o ReSubOps(Tail(s))

RECURSIVE LStrip(_)
LStrip(s) ==
  IF s # <<>> /\ Head(s) \in Whitespace THEN LStrip(Tail(s)) ELSE s

RECURSIVE RStrip(_)
RStrip(s) ==
  IF s # <<>> /\ s[Len(s)] \in Whitespace
  THEN RStrip(SubSeq(s, 1, Len(s) - 1)) ELSE s

\* s.strip()
Strip(s) == RStrip(LStrip(s))

(***************************************************************************)
(* parse_version_constraint                                                *)
(***************************************************************************)
\* the string branch with the operators removed only at the front of the clause
ResolveStringLeadingOnly(c) ==
  LET first == Split(Split(c, "[")[1], ",")[1]
      RECURSIVE DropOps(_)
      DropOps(s) == IF s # <<>> /\ Head(s) \in OpChars THEN DropOps(Tail(s)) ELSE s
  IN  Strip(DropOps(first))

\* the string branch
ResolveString(c) ==
  LET constraint == Split(c, "[")[1]
      first == Split(constraint, ",")[1]
  IN  Strip(ReSubOps(first))

RECURSIVE parse_version_constraint(_)
parse_version_constraint(constraint) ==
  IF constraint.t = "str" THEN Ret(Str(ResolveString(constraint.s)))
  ELSE IF constraint.t = "dict"
       THEN IF constraint.ver = <<>>
            THEN Raise("KeyError")
            ELSE parse_version_constraint(constraint.ver[1])
       ELSE Ret(None)

(***************************************************************************)
(* packaging.version.parse, as compare_versions uses it: whether the       *)
(* string is a version, and the release numbers of the version.            *)
(***************************************************************************)
DigitSeq == <<"0", "1", "2", "3", "4", "5", "6", "7", "8", "9">>

DigitVal(c) == (CHOOSE n \in 1..10 : DigitSeq[n] = c) - 1

RECURSIVE IntOf(_)
\* int(ds) for a run of digits
IntOf(ds) ==
  IF ds = <<>> THEN 0
  ELSE IntOf(SubSeq(ds, 1, Len(ds) - 1)) * 10 + DigitVal(ds[Len(ds)])

\* str.lower() of one character
LowerChar(c) ==
  IF c \in Uppercase THEN LowerSeq[CHOOSE i \in 1..26 : UpperSeq[i] = c] ELSE c

Lower(s) == [i \in 1..Len(s) |-> LowerChar(s[i])]

\* the position after the longest run of digits that starts at p
DigitRunEnd(t, p) ==
  CHOOSE q \in p..(Len(t) + 1) :
    /\ \A j \in p..(q - 1) : t[j] \in Digits
    /\ (q = Len(t) + 1 \/ t[q] \notin Digits)

RECURSIVE ReleaseAt(_, _)

VersionSeps == {"-", "_", "."}

PreWords == {<<"a", "l", "p", "h", "a">>, <<"a">>, <<"b">>, <<"b", "e", "t", "a">>,
             <<"c">>, <<"r", "c">>, <<"p", "r", "e">>,
             <<"p", "r", "e", "v", "i", "e", "w">>}

PostWords == {<<"p", "o", "s", "t">>, <<"r", "e", "v">>, <<"r">>}

DevWords == {<<"d", "e", "v">>}

\* The groups after the release are matched as segments: each operator says
\* whether its part of the pattern matches t from position i up to j - 1.

\* [0-9]+
NumSeg(t, i, j) == i < j /\ \A k \in i..(j - 1) : t[k] \in Digits

\* [-_\.]?
OptSepSeg(t, i, j) == j = i \/ (j = i + 1 /\ t[i] \in VersionSeps)

\* [-_\.]?(word)[-_\.]?([0-9]+)?
LabelledSeg(t, i, j, W) ==
  \E a \in i..j : /\ OptSepSeg(t, i, a)
                  /\ \E b \in a..j : /\ SubSeq(t, a, b - 1) \in W
                                     /\ \E c \in b..j : /\ OptSepSeg(t, b, c)
                                                        /\ (c = j \/ NumSeg(t, c, j))

\* (?:-([0-9]+)) | [-_\.]?(post|rev|r)[-_\.]?([0-9]+)?
PostSeg(t, i, j) ==
  (i < j /\ t[i] = "-" /\ NumSeg(t, i + 1, j)) \/ LabelledSeg(t, i, j, PostWords)

\* \+[a-z0-9]+(?:[-_\.][a-z0-9]+)*
LocalSeg(t, i, j) ==
  /\ i + 1 < j
  /\ t[i] = "+"
  /\ t[i + 1] \in Lowercase \cup Digits
  /\ t[j - 1] \in Lowercase \cup Digits
  /\ \A k \in (i + 1)..(j - 1) : t[k] \in Lowercase \cup Digits \cup VersionSeps
  /\ \A k \in (i + 1)..(j - 2) : ~(t[k] \in VersionSeps /\ t[k + 1] \in VersionSeps)

\* (pre)?(post)?(dev)?(local)?$ from position p
SuffixMatches(t, p) ==
  \E a \in p..(Len(t) + 1) :
    /\ a = p \/ LabelledSeg(t, p, a, PreWords)
    /\ \E b \in a..(Len(t) + 1) :
         /\ b = a \/ PostSeg(t, a, b)
         /\ \E c \in b..(Len(t) + 1) :
              /\ c = b \/ LabelledSeg(t, b, c, DevWords)
              /\ c = Len(t) + 1 \/ LocalSeg(t, c, Len(t) + 1)

InvalidVersion == [ok |-> FALSE, release |-> <<>>]

\* the element of a one-element set; The({F(v) : v \in {e}}) is F(e) with e
\* evaluated once
The(S) == CHOOSE x \in S : TRUE

\* the statement of ReleaseAt, where the run of digits from p ends at e
ReleaseFrom(t, p, e) ==
  IF e <= Len(t) /\ t[e] = "." /\ DigitRunEnd(t, e + 1) > e + 1
  THEN The({[nums |-> <<IntOf(SubSeq(t, p, e - 1))>> \o rest.nums, end |-> rest.end] :
              rest \in {ReleaseAt(t, e + 1)}})
  ELSE [nums |-> <<IntOf(SubSeq(t, p, e - 1))>>, end |-> e]

\* [0-9]+(?:\.[0-9]+)* at p, which starts a run of digits: the numbers and
\* the position after the match
ReleaseAt(t, p) == The({ReleaseFrom(t, p, e) : e \in {DigitRunEnd(t, p)}})

\* the version whose release rel starts at p, after v?(epoch!)?
VersionFromRelease(t, p, rel) ==
  IF rel.end = p THEN InvalidVersion
  ELSE IF SuffixMatches(t, rel.end)
       THEN [ok |-> TRUE, release |-> rel.nums]
       ELSE InvalidVersion

\* (?:([0-9]+)!)? at p, where the run of digits from p ends at e: the position after it
AfterEpoch(t, p, e) ==
  IF e > p /\ e <= Len(t) /\ t[e] = "!" THEN e + 1 ELSE p

\* the release at p, or none (ending at p) where no digit starts it
ReleaseOrNone(t, p) ==
  IF p > Len(t) \/ t[p] \notin Digits THEN [nums |-> <<>>, end |-> p] ELSE ReleaseAt(t, p)

VersionFromEpoch(t, p) ==
  The({VersionFromRelease(t, p, rel) : rel \in {ReleaseOrNone(t, p)}})

\* v? at the start of t: the position after it
AfterV(t) == IF t # <<>> /\ t[1] = "v" THEN 2 ELSE 1

VersionOfStripped(t) ==
  The({VersionFromEpoch(t, p) :
         p \in {AfterEpoch(t, AfterV(t), DigitRunEnd(t, AfterV(t)))}})

\* Version(s) for a string s: ok is whether s matches
\* ^\s*v?(epoch!)?release(pre)?(post)?(dev)?(local)?\s*$ ignoring case
VersionOfString(s) == The({VersionOfStripped(t) : t \in {Lower(Strip(s))}})

\* The repository pins no release of packaging, and what compare_versions
\* gets from the library differs between releases:
\*   "premajor" (16.8 to 19.2): a Version has no major and no minor; a
\*              string that is not a version parses to a LegacyVersion; a
\*              non-string raises TypeError;
\*   "legacy"   (20.x, 21.3): a Version has major and minor; a string that is
\*              not a version parses to a LegacyVersion, which has neither; a
\*              non-string raises TypeError;
\*   "strict"   (24.1, 26.0): a string that is not a version raises
\*              InvalidVersion; a non-string raises TypeError;
\*   "fastpath" (26.2): as "strict", but a non-string iterable whose items
\*              are all among ".0123456789" reaches .split and raises
\*              AttributeError.
Releases == {"premajor", "legacy", "strict", "fastpath"}

\* the non-strings that pass the fast path's test: an iterable of such
\* characters, a dict all of whose keys are such characters, and anything
\* empty that iterates ([], (), set(), {})
SplitsNonString(v) ==
  v.t = "digits" \/ (v.t = "dict" /\ v.ver = <<>> /\ ~v.more)

\* what version.parse returns or raises: has_major is whether the object
\* returned has the attributes major and minor
Parsed(exc, release, has_major) ==
  [exc |-> exc, release |-> release, has_major |-> has_major]

\* version.parse(v) under the release rel, r being the match of v as a
\* version when v is a string
ParseIn(rel, v, r) ==
  IF v.t # "str"
  THEN IF rel = "fastpath" /\ SplitsNonString(v)
       THEN Parsed("AttributeError", <<>>, FALSE)
       ELSE Parsed("TypeError", <<>>, FALSE)
  ELSE IF r.ok THEN Parsed("", r.release, rel # "premajor")
  ELSE IF rel \in {"premajor", "legacy"} THEN Parsed("", <<>>, FALSE)
  ELSE Parsed("InvalidVersion", <<>>, FALSE)

\* version.parse(v) with the release rel of packaging installed: the Version
\* or LegacyVersion it returns, or the exception it raises
version_parse(rel, v) ==
  The({ParseIn(rel, v, r) :
         r \in {IF v.t = "str" THEN VersionOfString(v.s) ELSE InvalidVersion}})

\* Version.major, Version.minor, Version.micro
Major(release) == IF Len(release) >= 1 THEN release[1] ELSE 0

Minor(release) == IF Len(release) >= 2 THEN release[2] ELSE 0

Micro(release) == IF Len(release) >= 3 THEN release[3] ELSE 0

(***************************************************************************)
(* compare_versions                                                        *)
(***************************************************************************)
Verdict(color, level) == [color |-> color, level |-> level]

\* the comparison with the level of a major update on the minor branch
CompareParsedMinorAsMajorLevel(c, l) ==
  IF Major(c) # Major(l) THEN Verdict("red", 2)
  ELSE IF Minor(c) # Minor(l) THEN Verdict("yellow", 2)
  ELSE Verdict("white", 0)

\* the comparison of two parsed versions
CompareParsed(c, l) ==
  IF Major(c) # Major(l) THEN Verdict("red", 2)
  ELSE IF Minor(c) # Minor(l) THEN Verdict("yellow", 1)
  ELSE Verdict("white", 0)

\* the statements after the two parses; .major of an object without the
\* attribute (a LegacyVersion, or a Version of a release before 20.0) raises
\* AttributeError
CompareTryParsed(current_v, latest_v) ==
  IF current_v.exc # "" THEN Raise(current_v.exc)
  ELSE IF latest_v.exc # "" THEN Raise(latest_v.exc)
  ELSE IF ~current_v.has_major \/ ~latest_v.has_major THEN Raise("AttributeError")
  ELSE [exc |-> "", val |-> CompareParsed(current_v.release, latest_v.release)]

\* the body of the try block, with the release rel of packaging installed
CompareTry(rel, current, latest) ==
  The({CompareTryParsed(current_v, latest_v) :
         current_v \in {version_parse(rel, current)},
         latest_v \in {version_parse(rel, latest)}})

\* the try block with an exception left to propagate
TryExceptPropagates(r) == r

\* try: ... except Exception: return "white", 0
TryExceptWhite(r) ==
  IF r.exc # "" THEN [exc |-> "", val |-> Verdict("white", 0)] ELSE r

\* compare_versions(current, latest) with the release rel of packaging
\* installed
compare_versions(rel, current, latest) ==
  IF ~Truthy(current) \/ ~Truthy(latest)
  THEN [exc |-> "", val |-> Verdict("white", 0)]
  ELSE The({TryExceptWhite(r) : r \in {CompareTry(rel, current, latest)}})

(***************************************************************************)
(* get_pypi_info                                                           *)
(***************************************************************************)
\* What the index does with one GET: err is session.get raising (a network
\* error); otherwise the status, whether the body reads as JSON, whether the
\* JSON has "info", and info's "version" and "summary" (<<>> when missing).
Response(err, status, jsonOk, hasInfo, version, summary) ==
  [err |-> err, status |-> status, jsonOk |-> jsonOk, hasInfo |-> hasInfo,
   version |-> version, summary |-> summary]

NoResponse == Response(FALSE, 0, FALSE, FALSE, <<>>, <<>>)

\* what get_pypi_info has of a response when session.get(url) resumes it:
\* whether the request raised, and the status; the body is not read yet
HeadOf(resp) == Response(resp.err, resp.status, FALSE, FALSE, <<>>, <<>>)

\* if response.status == 200: the coroutine goes on to await response.json()
AwaitsBody(head) == ~head.err /\ head.status = 200

Fetched(latest, description) == [latest |-> latest, description |-> description]

\* info.get(key, "")
GetOrEmpty(field) == IF field = <<>> THEN Str(<<>>) ELSE field[1]

\* the body of the try block; falling out of it without a return is Ret(None, None)
FetchTry(resp) ==
  IF resp.err THEN Raise("ClientError")
  ELSE IF resp.status = 200
       THEN IF ~resp.jsonOk THEN Raise("ContentTypeError")
            ELSE IF ~resp.hasInfo THEN Raise("KeyError")
            ELSE [exc |-> "",
                  val |-> Fetched(GetOrEmpty(resp.version), GetOrEmpty(resp.summary))]
       ELSE [exc |-> "", val |-> Fetched(None, None)]

\* the try block with an exception left to propagate
FetchExceptPropagates(r) == r

\* except Exception: fall through to return None, None
FetchExcept(r) ==
  IF r.exc # "" THEN [exc |-> "", val |-> Fetched(None, None)] ELSE r

get_pypi_info(resp) == FetchExcept(FetchTry(resp))

(***************************************************************************)
(* analyze_packages_async: the parsing of the manifest                     *)
(***************************************************************************)
\* the position after the longest run of name characters that starts at p
NameRunEnd(t, p) ==
  CHOOSE q \in p..(Len(t) + 1) :
    /\ \A j \in p..(q - 1) : t[j] \in NameChars
    /\ (q = Len(t) + 1 \/ t[q] \notin NameChars)

\* the position after the longest run that "." matches (no newline) from p
DotRunEnd(t, p) ==
  CHOOSE q \in p..(Len(t) + 1) :
    /\ \A j \in p..(q - 1) : t[j] # "\n"
    /\ (q = Len(t) + 1 \/ t[q] = "\n")

\* re.match(r"([A-Za-z0-9_.\-]+)(\[.*\])?(.*)", dep): whether it matches,
\* and groups 1 and 3
DepMatch(dep) ==
  IF dep = <<>> \/ dep[1] \notin NameChars
  THEN [matched |-> FALSE, g1 |-> <<>>, g3 |-> <<>>]
  ELSE LET n == NameRunEnd(dep, 1)
           closers == IF n <= Len(dep) /\ dep[n] = "["
                      THEN {k \in (n + 1)..(DotRunEnd(dep, n + 1) - 1) : dep[k] = "]"}
                      ELSE {}
           start == IF closers = {} THEN n
                    ELSE (CHOOSE k \in closers : \A j \in closers : j <= k) + 1
       IN  [matched |-> TRUE,
            g1 |-> SubSeq(dep, 1, n - 1),
            g3 |-> SubSeq(dep, start, DotRunEnd(dep, start) - 1)]

Task(package, current_version) ==
  [package |-> package, current_version |-> current_version]

RECURSIVE ParseDependenciesBreak(_)
\* the loop leaving at the first line that does not match
ParseDependenciesBreak(deps) ==
  IF deps = <<>> THEN [exc |-> "", tasks |-> <<>>]
  ELSE LET match == DepMatch(Head(deps))
       IN  IF ~match.matched THEN [exc |-> "", tasks |-> <<>>]
           ELSE LET cur == parse_version_constraint(Str(Strip(match.g3)))
                    rest == ParseDependenciesBreak(Tail(deps))
                IN  IF cur.exc # "" THEN [exc |-> cur.exc, tasks |-> <<>>]
                    ELSE [exc |-> rest.exc,
                          tasks |-> <<Task(match.g1, cur.val)>> \o rest.tasks]

RECURSIVE ParseDependencies(_)
\* for dep in dependencies: ... tasks.append(...)
ParseDependencies(deps) ==
  IF deps = <<>> THEN [exc |-> "", tasks |-> <<>>]
  ELSE LET match == DepMatch(Head(deps))
       IN  IF ~match.matched THEN ParseDependencies(Tail(deps))
           ELSE LET cur == parse_version_constraint(Str(Strip(match.g3)))
                    rest == ParseDependencies(Tail(deps))
                IN  IF cur.exc # "" THEN [exc |-> cur.exc, tasks |-> <<>>]
                    ELSE [exc |-> rest.exc,
                          tasks |-> <<Task(match.g1, cur.val)>> \o rest.tasks]

\* data.get("project", {}).get("dependencies", [])
Dependencies(data) == data.project

(***************************************************************************)
(* analyze_packages_async: gather and the reports                          *)
(***************************************************************************)
Coroutine(pkg, state, resp) == [pkg |-> pkg, state |-> state, resp |-> resp]

Completed(fl) == {i \in 1..Len(fl) : fl[i].state = "done"}

\* gather returns at the first completion
SomeComplete(fl) == fl = <<>> \/ Completed(fl) # {}

\* gather returns when every awaitable has completed
AllComplete(fl) == Completed(fl) = 1..Len(fl)

\* gather keeps the i-th awaitable's result at position i; n results are in
StoreResult(res, i, n, r) == [res EXCEPT ![i] = r]

Report(name, current_version, latest_version, color, upgrade_level, description) ==
  [name |-> name, current_version |-> current_version,
   latest_version |-> latest_version, color |-> color,
   upgrade_level |-> upgrade_level, description |-> description]

\* the report appended for a verdict, or the exception compare_versions raised
ReportOrRaise(task, result, verdict) ==
  IF verdict.exc # "" THEN [exc |-> verdict.exc, report |-> <<>>]
  ELSE [exc |-> "",
        report |-> <<Report(task.package, task.current_version, result.latest,
                            verdict.val.color, verdict.val.level,
                            result.description)>>]

\* one iteration of the loop over enumerate(tasks)
ClassifyOne(rel, task, result) ==
  The({ReportOrRaise(task, result, verdict) :
         verdict \in {compare_versions(rel, task.current_version, result.latest)}})

(***************************************************************************)
(* Inputs.                                                                 *)
(***************************************************************************)
SeqsUpTo(A, n) == UNION {[1..k -> A] : k \in 0..n}

ConstraintAlphabet == {"1", ".", "^", "<", ",", "[", " ", VT}

\* "^1.2.3", ">=2.0,<3.0", "~1.4", " ~= 1.4.* [x], >2", and "^1.2" between a
\* no-break space and a unit separator, and "1" between ogham space marks
ConstraintExamples ==
  {<<"^", "1", ".", "2", ".", "3">>,
   <<NBSP, "^", "1", ".", "2", US>>, <<OGHAM, "1", OGHAM>>,
   <<">", "=", "2", ".", "0", ",", "<", "3", ".", "0">>,
   <<"~", "1", ".", "4">>,
   <<" ", "~", "=", " ", "1", ".", "4", ".", "*", " ", "[", "x", "]", ",", " ", ">", "2">>}

ConstraintStrings == SeqsUpTo(ConstraintAlphabet, MaxConstraintLen) \cup ConstraintExamples

RECURSIVE TableConstraints(_)
\* the dicts nested at most d deep
TableConstraints(d) ==
  IF d = 0 THEN {}
  ELSE LET inner == {Str(s) : s \in ConstraintExamples} \cup {Other, Falsy, None}
                      \cup TableConstraints(d - 1)
       IN  {Dict(<<>>, m) : m \in BOOLEAN}
             \cup {Dict(<<v>>, m) : v \in inner, m \in BOOLEAN}

ResolveInputs ==
  {Str(s) : s \in ConstraintStrings} \cup TableConstraints(MaxDepth)
    \cup {None, Other, Falsy, DigitIterable, EmptyIterable, DigitKeyDict}

VersionAlphabet == {"1", "2", ".", "a"}

\* "1.2.3", "1.2.9", "1.3.0", "2.0.0", "1.0.0", "not-a-version", "3.1.0",
\* "V1.2", "1!2.0", "1.2.post1", "1.2-1", " 1.2rc1 ", "1.2.dev0+Ab.1", "1.02.3",
\* "1.2.3preview", "1.2+", "1.2_x", "1.3" before a vertical tab, "2.0"
\* between a next-line character and a file separator, "1.1a", and "1.2" before
\* an ogham space mark
VersionExamples ==
  {<<"1", ".", "2", ".", "3">>, <<"1", ".", "2", ".", "9">>,
   <<"1", ".", "3", ".", "0">>, <<"2", ".", "0", ".", "0">>,
   <<"1", ".", "0", ".", "0">>,
   <<"n", "o", "t", "-", "a", "-", "v", "e", "r", "s", "i", "o", "n">>,
   <<"3", ".", "1", ".", "0">>,
   <<"V", "1", ".", "2">>, <<"1", "!", "2", ".", "0">>,
   <<"1", ".", "2", ".", "p", "o", "s", "t", "1">>, <<"1", ".", "2", "-", "1">>,
   <<" ", "1", ".", "2", "r", "c", "1", " ">>,
   <<"1", ".", "2", ".", "d", "e", "v", "0", "+", "A", "b", ".", "1">>,
   <<"1", ".", "0", "2", ".", "3">>,
   <<"1", ".", "2", ".", "3", "p", "r", "e", "v", "i", "e", "w">>,
   <<"1", ".", "2", "+">>, <<"1", ".", "2", "_", "x">>,
   <<"1", ".", "3", VT>>, <<NEL, "2", ".", "0", FS>>,
   <<"1", ".", "1", "a">>, <<"1", ".", "2", OGHAM>>}

VersionStrings == SeqsUpTo(VersionAlphabet, MaxVerLen) \cup VersionExamples

\* the strings, None, a number or list that is true and one that is false, a
\* list of version characters, the empty list, and a dict without keys, with
\* keys, and with keys that are version characters
VersionInputs ==
  {Str(s) : s \in VersionStrings}
    \cup {None, Other, Falsy, DigitIterable, EmptyIterable,
          Dict(<<>>, FALSE), Dict(<<>>, TRUE), DigitKeyDict}

\* "requests>=2.0,<3.0", "x[s] ~=2.5.1" and a group separator, "y", " z==1", ""
DepLines ==
  {<<"r", "e", "q", "u", "e", "s", "t", "s", ">", "=", "2", ".", "0", ",", "<", "3", ".", "0">>,
   <<"x", "[", "s", "]", " ", "~", "=", "2", ".", "5", ".", "1", GS>>,
   <<"y">>,
   <<" ", "z", "=", "=", "1">>,
   <<>>}

\* python = "^3.9", requests = "^2.0", flask = {version = "~1.4", extras = [..]}
PoetryEntries ==
  {[name |-> <<"p", "y", "t", "h", "o", "n">>, constraint |-> Str(<<"^", "3", ".", "9">>)],
   [name |-> <<"r", "e", "q", "u", "e", "s", "t", "s">>,
    constraint |-> Str(<<"^", "2", ".", "0">>)],
   [name |-> <<"f", "l", "a", "s", "k">>,
    constraint |-> Dict(<<Str(<<"~", "1", ".", "4">>)>>, TRUE)]}

\* a parsed manifest: the project.dependencies list and the
\* tool.poetry.dependencies mapping (its entries in file order)
Manifests ==
  UNION {{[project |-> p, poetry |-> q] :
            q \in {e \in SeqsUpTo(PoetryEntries, MaxDeps - Len(p)) :
                     \A i, j \in 1..Len(e) : i # j => e[i].name # e[j].name}} :
         p \in SeqsUpTo(DepLines, MaxDeps)}

\* a network error, a 404, a 200 that is not JSON, a 200 without "info", a 200
\* with an empty "info", and two 200s with a version ("3.1.0" with a summary,
\* "2.5" without)
Responses ==
  {Response(TRUE, 0, FALSE, FALSE, <<>>, <<>>),
   Response(FALSE, 404, TRUE, FALSE, <<>>, <<>>),
   Response(FALSE, 200, FALSE, FALSE, <<>>, <<>>),
   Response(FALSE, 200, TRUE, FALSE, <<>>, <<>>),
   Response(FALSE, 200, TRUE, TRUE, <<>>, <<>>),
   Response(FALSE, 200, TRUE, TRUE, <<Str(<<"3", ".", "1", ".", "0">>)>>,
            <<Str(<<"h", "t", "t", "p">>)>>),
   Response(FALSE, 200, TRUE, TRUE, <<Str(<<"2", ".", "5">>)>>, <<>>)}

EmptyManifest == [project |-> <<>>, poetry |-> <<>>]

(***************************************************************************)
(* The analysis as a state machine.                                        *)
(***************************************************************************)
AnalysisIdle ==
  /\ manifest = EmptyManifest
  /\ tasks = <<>>
  /\ inflight = <<>>
  /\ results = <<>>
  /\ idx = 1
  /\ packages = <<>>
  /\ returned = 0
  /\ compared = 0

\* the release of packaging that line 4 imports
Installed == packaging \in Releases

CallIdle ==
  /\ arg1 = None
  /\ arg2 = None
  /\ out = Ret(None)

\* a request reaches the route: the manifest is whatever the file holds
Init ==
  /\ pc = "start"
  /\ manifest \in Manifests
  /\ tasks = <<>>
  /\ inflight = <<>>
  /\ results = <<>>
  /\ idx = 1
  /\ packages = <<>>
  /\ returned = 0
  /\ compared = 0
  /\ Installed
  /\ CallIdle

\* open() or toml.load() raises: the error leaves analyze_packages_async
ReadManifestFails ==
  /\ pc = "start"
  /\ pc' = "raised"
  /\ UNCHANGED <<manifest, tasks, inflight, results, idx, packages, returned,
                 compared, arg1, arg2, packaging, out>>

\* the tasks the loop built, or the exception leaves the analysis
SetTasks(parsed) ==
  IF parsed.exc # ""
  THEN pc' = "raised" /\ tasks' = tasks
  ELSE pc' = "issue" /\ tasks' = parsed.tasks

\* the manifest is read and the loop over the dependencies builds the tasks
ParseManifest ==
  /\ pc = "start"
  /\ SetTasks(ParseDependencies(Dependencies(manifest)))
  /\ UNCHANGED <<manifest, inflight, results, idx, packages, returned,
                 compared, arg1, arg2, packaging, out>>

\* asyncio.gather(*[get_pypi_info(session, pkg) for pkg, _, session, pkg in tasks])
IssueFetches ==
  /\ pc = "issue"
  /\ pc' = "gather"
  /\ inflight' = [i \in 1..Len(tasks) |->
                    Coroutine(tasks[i].package, "pending", NoResponse)]
  /\ results' = [i \in 1..Len(tasks) |-> Fetched(None, None)]
  /\ UNCHANGED <<manifest, tasks, idx, packages, returned, compared,
                 arg1, arg2, packaging, out>>

\* gather takes the i-th awaitable's outcome
SetResult(i, r) ==
  IF r.exc # ""
  THEN pc' = "raised" /\ results' = results
  ELSE /\ pc' = pc
       /\ results' = StoreResult(results, i, Cardinality(Completed(inflight)), r.val)

\* the i-th get_pypi_info is resumed from session.get(url) with an exception
\* or with a status other than 200, and returns
FetchFails(i, head) ==
  /\ pc = "gather"
  /\ inflight[i].state = "pending"
  /\ ~AwaitsBody(head)
  /\ SetResult(i, get_pypi_info(head))
  /\ inflight' = [inflight EXCEPT ![i] = Coroutine(inflight[i].pkg, "done", head)]
  /\ UNCHANGED <<manifest, tasks, idx, packages, returned, compared,
                 arg1, arg2, packaging, out>>

\* the i-th get_pypi_info is resumed from session.get(url) with status 200 and
\* suspends again in await response.json()
FetchStatusOk(i, head) ==
  /\ pc = "gather"
  /\ inflight[i].state = "pending"
  /\ AwaitsBody(head)
  /\ inflight' = [inflight EXCEPT ![i] = Coroutine(inflight[i].pkg, "reading", head)]
  /\ UNCHANGED <<pc, manifest, tasks, results, idx, packages, returned, compared,
                 arg1, arg2, packaging, out>>

\* the i-th get_pypi_info is resumed from response.json() with the body (or
\* the exception of a body that is not JSON) and returns
FetchBodyRead(i, resp) ==
  /\ pc = "gather"
  /\ inflight[i].state = "reading"
  /\ HeadOf(resp) = inflight[i].resp
  /\ SetResult(i, get_pypi_info(resp))
  /\ inflight' = [inflight EXCEPT ![i] = Coroutine(inflight[i].pkg, "done", resp)]
  /\ UNCHANGED <<manifest, tasks, idx, packages, returned, compared,
                 arg1, arg2, packaging, out>>

\* await asyncio.gather(...) returns the results
GatherReturn ==
  /\ pc = "gather"
  /\ AllComplete(inflight)
  /\ pc' = "classify"
  /\ idx' = 1
  /\ UNCHANGED <<manifest, tasks, inflight, results, packages, returned,
                 compared, arg1, arg2, packaging, out>>

\* packages.append(...), or the exception leaves the analysis
AppendReport(one) ==
  IF one.exc # ""
  THEN pc' = "raised" /\ packages' = packages
  ELSE pc' = pc /\ packages' = packages \o one.report

\* one iteration of the loop that classifies and appends a report
Classify ==
  /\ pc = "classify"
  /\ idx <= Len(tasks)
  /\ \E one \in {ClassifyOne(packaging, tasks[idx], results[idx])} : AppendReport(one)
  /\ idx' = idx + 1
  /\ compared' = compared + 1
  /\ UNCHANGED <<manifest, tasks, inflight, results, returned, arg1, arg2,
                 packaging, out>>

\* return packages
Return ==
  /\ pc = "classify"
  /\ idx > Len(tasks)
  /\ pc' = "done"
  /\ returned' = returned + 1
  /\ UNCHANGED <<manifest, tasks, inflight, results, idx, packages, compared,
                 arg1, arg2, packaging, out>>

\* the answers session.get can resume a fetch with
Heads == {HeadOf(resp) : resp \in Responses}

\* some pending fetch fails or gets a status other than 200
SomeFetchFails ==
  \E i \in 1..Len(inflight), head \in Heads : FetchFails(i, head)

\* some pending fetch gets status 200
SomeFetchStatusOk ==
  \E i \in 1..Len(inflight), head \in Heads : FetchStatusOk(i, head)

\* some fetch that awaits its body gets it
SomeFetchBodyRead ==
  \E i \in 1..Len(inflight), resp \in Responses : FetchBodyRead(i, resp)

Next ==
  \/ ReadManifestFails
  \/ ParseManifest
  \/ IssueFetches
  \/ SomeFetchFails
  \/ SomeFetchStatusOk
  \/ SomeFetchBodyRead
  \/ GatherReturn
  \/ Classify
  \/ Return

Spec == Init /\ [][Next]_vars

\* every request gets an answer, every body that is awaited is delivered (or
\* its read fails), and the event loop resumes the analysis when
\* gather is done and runs it to its return
FairSpec ==
  /\ Spec
  /\ WF_vars(SomeFetchFails \/ SomeFetchStatusOk)
  /\ WF_vars(SomeFetchBodyRead)
  /\ WF_vars(GatherReturn)
  /\ WF_vars(Classify)
  /\ WF_vars(Return)

(***************************************************************************)
(* The pure functions, applied to enumerated inputs.                       *)
(***************************************************************************)
InitResolve ==
  /\ pc = "resolve_call"
  /\ arg1 \in ResolveInputs
  /\ arg2 = None
  /\ out = Ret(None)
  /\ Installed
  /\ AnalysisIdle

CallResolve ==
  /\ pc = "resolve_call"
  /\ pc' = "resolve_ret"
  /\ out' = parse_version_constraint(arg1)
  /\ UNCHANGED <<manifest, tasks, inflight, results, idx, packages, returned,
                 compared, arg1, arg2, packaging>>

NextResolve == CallResolve

SpecResolve == InitResolve /\ [][NextResolve]_vars

InitCompare ==
  /\ pc = "compare_call"
  /\ arg1 \in VersionInputs
  /\ arg2 \in VersionInputs
  /\ out = Ret(None)
  /\ Installed
  /\ AnalysisIdle

CallCompare ==
  /\ pc = "compare_call"
  /\ pc' = "compare_ret"
  /\ out' = compare_versions(packaging, arg1, arg2)
  /\ UNCHANGED <<manifest, tasks, inflight, results, idx, packages, returned,
                 compared, arg1, arg2, packaging>>

NextCompare == CallCompare

SpecCompare == InitCompare /\ [][NextCompare]_vars

(***************************************************************************)
(* Properties.                                                             *)
(***************************************************************************)
White == Verdict("white", 0)

V123 == Str(<<"1", ".", "2", ".", "3">>)

V129 == Str(<<"1", ".", "2", ".", "9">>)

V130 == Str(<<"1", ".", "3", ".", "0">>)

V200 == Str(<<"2", ".", "0", ".", "0">>)

V100 == Str(<<"1", ".", "0", ".", "0">>)

NotAVersion == Str(<<"n", "o", "t", "-", "a", "-", "v", "e", "r", "s", "i", "o", "n">>)

\* a present value that parses as a version
ParsesAsVersion(v) == Truthy(v) /\ v.t = "str" /\ VersionOfString(v.s).ok

\* the verdict the major and minor components of two versions call for
ByMajorMinor(c, l) ==
  IF Major(c) # Major(l) THEN Verdict("red", 2)
  ELSE IF Minor(c) # Minor(l) THEN Verdict("yellow", 1)
  ELSE White

\* C1: when current and latest are both present and both parse as versions,
\* compare_versions returns (red, 2) if their majors differ, else (yellow, 1)
\* if their minors differ, else (white, 0); versions that differ only in the
\* patch or the pre-release part get (white, 0).
C1_MajorThenMinor ==
  /\ (pc = "compare_ret" /\ ParsesAsVersion(arg1) /\ ParsesAsVersion(arg2))
       => out = [exc |-> "",
                 val |-> ByMajorMinor(VersionOfString(arg1.s).release,
                                      VersionOfString(arg2.s).release)]
  /\ (pc = "compare_ret" /\ arg1 = V123 /\ arg2 = V129) => out.val = White
  /\ (pc = "compare_ret" /\ arg1 = V123 /\ arg2 = V130) => out.val = Verdict("yellow", 1)
  /\ (pc = "compare_ret" /\ arg1 = V123 /\ arg2 = V200) => out.val = Verdict("red", 2)
  /\ (pc = "compare_ret" /\ arg1 = Str(<<"1", ".", "1">>) /\ arg2 = Str(<<"1", ".", "1", "a">>))
       => out.val = White
  /\ (pc = "compare_ret" /\ arg1 = V123 /\ arg2 = Str(<<"1", ".", "3", VT>>))
       => out.val = Verdict("yellow", 1)

\* None or the empty string
Absent(v) == v.t = "none" \/ (v.t = "str" /\ v.s = <<>>)

\* a string that is not a version
FailsParsing(v) == v.t = "str" /\ ~VersionOfString(v.s).ok

\* C2: compare_versions is total: it never raises, and when current or latest
\* is absent (None or empty) or fails version parsing it returns (white, 0).
C2_TotalAndNeutral ==
  pc = "compare_ret" =>
    /\ out.exc = ""
    /\ (Absent(arg1) \/ Absent(arg2) \/ FailsParsing(arg1) \/ FailsParsing(arg2))
         => out.val = White

\* compare_versions has returned (white, 0) for a latest that is not a version
C2_Witness ==
  pc = "compare_ret" /\ arg1 = V100 /\ arg2 = NotAVersion /\ out = [exc |-> "", val |-> White]

\* C3: for a dict constraint parse_version_constraint returns the resolution of
\* its "version" field when the key exists and None when it does not; no
\* exception leaves parse_version_constraint for any input.
C3_TableResolvesOrAbsent ==
  pc = "resolve_ret" =>
    /\ out.exc = ""
    /\ arg1.t = "dict" =>
         IF arg1.ver = <<>> THEN out.val = None
         ELSE out = parse_version_constraint(arg1.ver[1])

\* the positions of s before its first "[" and before its first ","
ClausePositions(s) ==
  {i \in 1..Len(s) : \A j \in 1..i : s[j] \notin {"[", ","}}

\* of those, the positions that hold no operator character
KeptPositions(s) == {i \in ClausePositions(s) : s[i] \notin OpChars}

\* of those, the positions from the first to the last that is not whitespace
ResultPositions(s) ==
  {i \in KeptPositions(s) :
     /\ \E j \in KeptPositions(s) : j <= i /\ s[j] \notin Whitespace
     /\ \E j \in KeptPositions(s) : j >= i /\ s[j] \notin Whitespace}

\* r is s read at the positions of P, in order
ReadsAt(r, s, P) ==
  /\ Len(r) = Cardinality(P)
  /\ \A i \in P : r[Cardinality({j \in P : j <= i})] = s[i]

\* C4: for a string constraint parse_version_constraint returns the text before
\* the first "[", cut at the first ",", with every ^ ~ > = < removed, trimmed
\* of surrounding whitespace ("^1.2.3" gives "1.2.3", ">=2.0,<3.0" gives
\* "2.0"); the result holds no "[", "," or operator character.
C4_StringResolution ==
  (pc = "resolve_ret" /\ arg1.t = "str") =>
    /\ out.exc = ""
    /\ out.val.t = "str"
    /\ ReadsAt(out.val.s, arg1.s, ResultPositions(arg1.s))
    /\ \A i \in 1..Len(out.val.s) : out.val.s[i] \notin OpChars \cup {"[", ","}
    /\ arg1.s = <<"^", "1", ".", "2", ".", "3">> => out.val = V123
    /\ arg1.s = <<">", "=", "2", ".", "0", ",", "<", "3", ".", "0">>
         => out.val = Str(<<"2", ".", "0">>)
    /\ arg1.s = <<NBSP, "^", "1", ".", "2", US>> => out.val = Str(<<"1", ".", "2">>)

\* parse_version_constraint has returned "2.0" for ">=2.0,<3.0"
C4_Witness ==
  /\ pc = "resolve_ret"
  /\ arg1 = Str(<<">", "=", "2", ".", "0", ",", "<", "3", ".", "0">>)
  /\ out = Ret(Str(<<"2", ".", "0">>))

\* C5: every report has upgrade_level in {0, 1, 2} and its color is white
\* exactly when the level is 0, yellow exactly when 1, red exactly when 2.
C5_ColorFollowsLevel ==
  \A i \in 1..Len(packages) :
    /\ packages[i].upgrade_level \in {0, 1, 2}
    /\ packages[i].color = "white" <=> packages[i].upgrade_level = 0
    /\ packages[i].color = "yellow" <=> packages[i].upgrade_level = 1
    /\ packages[i].color = "red" <=> packages[i].upgrade_level = 2

\* the analysis has returned a red report and a yellow report
C5_Witness ==
  /\ pc = "done"
  /\ \E i, j \in 1..Len(packages) :
       packages[i].upgrade_level = 2 /\ packages[j].upgrade_level = 1

\* the lookup fails: a network error, an exception while the response is
\* read, or a status other than 200
LookupFails(resp) ==
  resp.err \/ resp.status # 200 \/ ~resp.jsonOk \/ ~resp.hasInfo

\* a line matches the dependency-line regex when it starts with a name
\* character: the name needs one, and the extras and the rest may be empty
LineMatches(d) == d # <<>> /\ d[1] \in NameChars

\* the lines of the manifest's list that match the dependency-line regex
MatchingLines(m) == SelectSeq(m.project, LineMatches)

\* the name of a matching line: its longest prefix of name characters
NameOf(d) ==
  SubSeq(d, 1, CHOOSE k \in 1..Len(d) :
                 /\ \A j \in 1..k : d[j] \in NameChars
                 /\ (k = Len(d) \/ d[k + 1] \notin NameChars))

\* the current version a matching line resolves to
ResolvedCurrent(line) == Str(ResolveString(Strip(DepMatch(line).g3)))

\* C6: a dependency whose lookup fails still has its report, with its current
\* version resolved as usual, latest None and level 0; the failure ends
\* neither the analysis nor the other fetches, and the other reports carry
\* what their own lookups returned.
C6_FailedLookupIsolated ==
  /\ pc = "raised" => inflight = <<>>
  /\ \A i \in 1..Len(inflight) :
       (inflight[i].state = "done" /\ LookupFails(inflight[i].resp))
         => results[i] = Fetched(None, None)
  /\ pc = "done" =>
       /\ Len(packages) = Len(inflight)
       /\ Len(packages) = Len(MatchingLines(manifest))
       /\ \A i \in 1..Len(packages) :
            IF LookupFails(inflight[i].resp)
            THEN /\ packages[i].name = inflight[i].pkg
                 /\ packages[i].current_version = ResolvedCurrent(MatchingLines(manifest)[i])
                 /\ packages[i].latest_version = None
                 /\ packages[i].upgrade_level = 0
            ELSE /\ packages[i].latest_version = GetOrEmpty(inflight[i].resp.version)
                 /\ packages[i].description = GetOrEmpty(inflight[i].resp.summary)

\* the analysis has returned two reports, the first for a lookup that failed
\* and the second with the version its lookup returned
C6_Witness ==
  /\ pc = "done"
  /\ Len(packages) = 2
  /\ inflight[1].resp.err
  /\ packages[1].latest_version = None
  /\ packages[1].current_version = Str(<<"2", ".", "0">>)
  /\ ~LookupFails(inflight[2].resp)
  /\ packages[2].latest_version = Str(<<"3", ".", "1", ".", "0">>)

Python == <<"p", "y", "t", "h", "o", "n">>

\* C7: for a manifest with a tool.poetry.dependencies mapping the analysis
\* returns one report for every entry except "python", with the current
\* version resolved from the entry's constraint.
C7_PoetryEntriesReported ==
  pc = "done" =>
    /\ Len(packages) = Len(MatchingLines(manifest))
                         + Cardinality({k \in 1..Len(manifest.poetry) :
                                          manifest.poetry[k].name # Python})
    /\ \A k \in 1..Len(manifest.poetry) :
         manifest.poetry[k].name # Python =>
           \E i \in 1..Len(packages) :
             /\ packages[i].name = manifest.poetry[k].name
             /\ Ret(packages[i].current_version)
                  = parse_version_constraint(manifest.poetry[k].constraint)

\* C8: a line that fails the dependency-line regex is skipped without error:
\* the tasks, the fetches and the reports are one per matching line, in number
\* and in name.
C8_MalformedLinesSkipped ==
  /\ pc = "raised" => tasks = <<>> /\ inflight = <<>>
  /\ pc \in {"issue", "gather", "classify", "done"} =>
       \A lines \in {MatchingLines(manifest)} :
         /\ Len(tasks) = Len(lines)
         /\ \A i \in 1..Len(tasks) : tasks[i].package = NameOf(lines[i])
         /\ pc \in {"gather", "classify", "done"} =>
              /\ Len(inflight) = Len(lines)
              /\ \A i \in 1..Len(inflight) : inflight[i].pkg = NameOf(lines[i])
         /\ pc = "done" => Len(packages) = Len(lines)

\* the analysis has returned one report for a manifest whose first line fails
\* the regex and whose second line matches
C8_Witness ==
  /\ pc = "done"
  /\ manifest.project = <<<<" ", "z", "=", "=", "1">>, <<"y">>>>
  /\ Len(packages) = 1
  /\ packages[1].name = <<"y">>

Requests == <<"r", "e", "q", "u", "e", "s", "t", "s">>

\* C9: the reports are in manifest order, and the i-th report pairs the name
\* and resolved current version of the i-th parsed dependency with what the
\* fetch issued for that name returned; "requests>=2.0,<3.0" with the index
\* answering "3.1.0" gives current "2.0", latest "3.1.0", level 2, red.
C9_ReportsInManifestOrder ==
  pc = "done" =>
    /\ Len(packages) = Len(MatchingLines(manifest))
    /\ \A i \in 1..Len(packages) :
         /\ packages[i].name = DepMatch(MatchingLines(manifest)[i]).g1
         /\ packages[i].current_version = ResolvedCurrent(MatchingLines(manifest)[i])
         /\ inflight[i].pkg = packages[i].name
         /\ inflight[i].state = "done"
         /\ Fetched(packages[i].latest_version, packages[i].description)
              = get_pypi_info(inflight[i].resp).val
    /\ \A i \in 1..Len(packages) :
         (packages[i].name = Requests
            /\ inflight[i].resp.version = <<Str(<<"3", ".", "1", ".", "0">>)>>)
           => /\ packages[i].current_version = Str(<<"2", ".", "0">>)
              /\ packages[i].latest_version = Str(<<"3", ".", "1", ".", "0">>)
              /\ packages[i].upgrade_level = 2
              /\ packages[i].color = "red"

\* every issued fetch has completed
EveryFetchCompleted == \A i \in 1..Len(inflight) : inflight[i].state = "done"

\* C10: nothing is compared and no report is appended until every issued fetch
\* has completed, and once the fetches are issued the analysis returns its
\* report list, exactly once.
C10_GatherThenClassify ==
  /\ []((compared > 0 \/ packages # <<>>) => EveryFetchCompleted)
  /\ []((pc \in {"classify", "done"}) => EveryFetchCompleted)
  /\ [](returned <= 1)
  /\ (pc = "gather") ~> (pc = "done" /\ returned = 1 /\ Len(packages) = Len(tasks))

\* the analysis has returned, once, the reports of two fetches
C10_Witness ==
  pc = "done" /\ returned = 1 /\ Len(packages) = 2 /\ compared = 2 /\ EveryFetchCompleted

====
